---- MODULE Spec2Model ----
\* journaldriver: tail the systemd journal, batch the records of a 500 ms
\* window, upload each batch to Stackdriver in chunks and persist the journal
\* cursor.  The model follows src/src/main.rs; the journal library, the
\* filesystem, the metadata server and the HTTP backend are the environment
\* and answer nondeterministically.
EXTENDS Integers, Sequences, FiniteSets, TLC

\* ---------------------------------------------------------------- bounds

\* Records the journal holds at most in the whole-program specification.
NRec == 3
\* Windows of 500 ms the monotonic clock is followed for.
MaxWindows == 4
\* Process starts (first start plus restarts by the supervisor).
MaxRuns == 2
\* Largest batch handed to flush in the flush-only specification.
MaxBatch == 1501

\* Longest message, in JSON tokens.
MaxMsgLen == 5

\* Longest PRIORITY value, in characters.
MaxPriorityLen == 2

\* ------------------------------------------------------ program constants

\* let iteration = Duration::from_millis(500)
iteration == 500
\* entries.chunks(750)
ChunkSize == 750
\* expires: Duration::from_secs(3000), in seconds
JwtLifetime == 3000

\* ------------------------------------------------------------ exit status

\* process::exit(1)
ExitSeekFailed == "exit(1)"
\* an expect on an Err panics; the process ends with the status of a panic
ExitPanic == "panic"
\* the process was killed from outside
ExitKilled == "killed"
\* the process has not exited
Running == "running"
\* main returns: the process ends with status 0
ExitReturned == "returned"

\* The status the parent of the process sees: 0 when main returns, the
\* argument of process::exit, 101 when the main thread panics.  A killed
\* process has no exit status of its own.
ExitStatus(code) ==
    CASE code = ExitReturned -> 0
      [] code = ExitSeekFailed -> 1
      [] code = ExitPanic -> 101

\* ------------------------------------------------------------ environment

\* Largest value of the monotonic clock (ms) the model follows.
MaxClock == MaxWindows * iteration

\* expires_in values (seconds) the metadata server may declare.
ExpiresIn == {1, 2}
\* Durations (ms) a blocking call may take.
Delays == {0, 500}

Whitespace == {" ", "\n"}

\* The cursor string the journal issues when record p is the current one.
CursorOf(p) == <<"s=", ToString(p)>>

ValidCursors == {CursorOf(p) : p \in 1..NRec}

\* The record a cursor string of the journal denotes.
CursorPos(c) == CHOOSE p \in 1..NRec : CursorOf(p) = c

NoFile == [exists |-> FALSE, contents |-> <<>>]

FileWith(c) == [exists |-> TRUE, contents |-> c]

\* Cursor files a first start may find.
InitialFiles ==
    {NoFile, FileWith(CursorOf(1)), FileWith(<<" ">> \o CursorOf(1) \o <<"\n">>)}

\* --------------------------------------------------------- pure functions

\* str::trim
RECURSIVE TrimStart(_)
TrimStart(s) ==
    IF s # <<>> /\ Head(s) \in Whitespace THEN TrimStart(Tail(s)) ELSE s

RECURSIVE TrimEnd(_)
TrimEnd(s) ==
    IF s # <<>> /\ s[Len(s)] \in Whitespace
    THEN TrimEnd(SubSeq(s, 1, Len(s) - 1))
    ELSE s

Trim(s) == TrimEnd(TrimStart(s))

Min(a, b) == IF a < b THEN a ELSE b

\* A chunking that drops the last, shorter chunk (slice::chunks_exact).
RECURSIVE ChunksExact(_, _)
ChunksExact(s, n) ==
    IF Len(s) < n THEN <<>>
    ELSE <<SubSeq(s, 1, n)>> \o ChunksExact(SubSeq(s, n + 1, Len(s)), n)

\* slice::chunks(n): contiguous chunks of n elements, the last one shorter.
RECURSIVE Chunks(_, _)
Chunks(s, n) ==
    IF s = <<>> THEN <<>>
    ELSE <<SubSeq(s, 1, Min(n, Len(s)))>>
         \o Chunks(SubSeq(s, Min(n, Len(s)) + 1, Len(s)), n)

RECURSIVE Concat(_)
Concat(ss) == IF ss = <<>> THEN <<>> ELSE Head(ss) \o Concat(Tail(ss))

\* An expiry check with the operands of the subtraction swapped.
is_expired_swapped(tok, t) == tok.fetched_at - t > tok.expires

\* Token::is_expired at clock value t
is_expired(tok, t) == t - tok.fetched_at > tok.expires

\* get_metadata_token: lifetime is half the declared expires_in (whole seconds)
MetadataToken(id, t, expires_in) ==
    [token |-> id, fetched_at |-> t, expires |-> (expires_in \div 2) * 1000]

\* sign_service_account_token
ServiceAccountToken(id, t) ==
    [token |-> id, fetched_at |-> t, expires |-> JwtLifetime * 1000]

NoToken == [token |-> 0, fetched_at |-> 0, expires |-> 0]

\* prepare_request and the Authorization header of write_entries
Post(chunk, tok, ok) == [entries |-> chunk, token |-> tok, ok |-> ok]

SeqToSet(s) == {s[k] : k \in 1..Len(s)}

\* ------------------------------------------------------------------ state

VARIABLES
    pc,             \* position of the process in main / receiver_loop / flush
    exit_code,      \* exit status, Running while the process lives
    runs,           \* process starts so far
    file,           \* the cursor file (POSITION_FILE)
    avail,          \* records the journal holds so far
    clock,          \* the monotonic clock, ms
    credentials,    \* SERVICE_ACCOUNT_CREDENTIALS is Some
    issued,         \* tokens handed out so far (names the token strings)
    read_result,    \* initial_cursor: outcome of reading the cursor file
    seek_position,  \* main: the JournalSeek computed by initial_cursor
    pos,            \* journal: records passed by the read pointer
    token,          \* receiver_loop: the token held
    now,            \* receiver_loop: start of the outer iteration
    buf,            \* receiver_loop: the buffer
    to_flush,       \* flush: entries
    cursor,         \* flush: cursor
    chunk_ix,       \* flush: index of the next chunk
    flush_start,    \* clock value at which the running flush was entered
    flush_ret,      \* outcome of the last flush
    posts,          \* POSTs of the last flush of this run, in order
    passed,         \* records the read pointer passed in this run
    attempted,      \* records contained in some POST so far
    written,        \* cursor strings written to the file in full
    persisted,      \* cursor of the last flush whose write succeeded
    received,       \* records read as Ok(Some(..)) in this run, in order
    uploaded,       \* entries of all POSTs of this run, in order
    last_read,      \* what the receive_next_record call just made returned
    inner_log,      \* what the inner loop logged for that call
    record,         \* From<JournalRecord>: the record to convert
    entry           \* From<JournalRecord>: the LogEntry made of it

vars == <<pc, exit_code, runs, file, avail, clock, credentials, issued,
          read_result, seek_position, pos, token, now, buf, to_flush, cursor,
          chunk_ix, flush_start, flush_ret, posts, passed, attempted, written,
          persisted, received, uploaded, last_read, inner_log,
          record, entry>>

env == <<file, avail, clock, credentials, issued>>
mainv == <<read_result, seek_position>>
loopv == <<token, now, buf>>
flushv == <<to_flush, cursor, chunk_ix, flush_start, flush_ret, posts>>
readv == <<last_read, inner_log>>
convv == <<record, entry>>
ghost == <<passed, attempted, written, persisted, received, uploaded, readv,
           convv>>

\* No record is being converted.
NoRecord == [none |-> TRUE]
NoEntry == [none |-> TRUE]

\* The inner loop wrote nothing to the log.
NoLog == ""

NoRead == [open |-> "none", read |-> "none", contents |-> <<>>]
NoSeek == [kind |-> "none", cursor |-> <<>>]
SeekTail == [kind |-> "Tail", cursor |-> <<>>]
SeekCursor(c) == [kind |-> "Cursor", cursor |-> c]

\* Records that may have arrived by the time the journal is looked at.
Arrivals == {avail} \cup (avail..NRec)

Init ==
    /\ pc = "main"
    /\ exit_code = Running
    /\ runs = 1
    /\ file \in InitialFiles
    /\ avail \in 1..2
    /\ clock = 0
    /\ credentials \in BOOLEAN
    /\ issued = 0
    /\ read_result = NoRead
    /\ seek_position = NoSeek
    /\ pos = 0
    /\ token = NoToken
    /\ now = 0
    /\ buf = <<>>
    /\ to_flush = <<>>
    /\ cursor = <<>>
    /\ chunk_ix = 0
    /\ flush_start = 0
    /\ flush_ret = "none"
    /\ posts = <<>>
    /\ passed = {}
    /\ attempted = {}
    /\ written = {}
    /\ persisted = <<>>
    /\ received = <<>>
    /\ uploaded = <<>>
    /\ last_read = "none"
    /\ inner_log = NoLog
    /\ record = NoRecord
    /\ entry = NoEntry

\* The process ends with status code.
Exit(code) ==
    /\ pc' = "exited"
    /\ exit_code' = code

\* ------------------------------------------------------------------- main

\* fs::create_dir_all(cursor_position_dir).expect(..)
CreateDir ==
    /\ pc = "main"
    /\ \/ /\ pc' = "open_journal"
          /\ UNCHANGED exit_code
       \/ Exit(ExitPanic)
    /\ UNCHANGED <<runs, env, mainv, pos, loopv, flushv, ghost>>

\* Journal::open(JournalFiles::All, false, true).expect(..)
OpenJournal ==
    /\ pc = "open_journal"
    /\ \/ /\ pc' = "initial_cursor"
          /\ UNCHANGED exit_code
       \/ Exit(ExitPanic)
    /\ UNCHANGED <<runs, env, mainv, pos, loopv, flushv, ghost>>

\* What File::open and read_to_string may answer for the cursor file f.
ReadResults(f) ==
    IF f.exists
    THEN {[open |-> "Ok", read |-> "Ok", contents |-> f.contents],
          [open |-> "Ok", read |-> "Err", contents |-> <<>>],
          [open |-> "Other", read |-> "none", contents |-> <<>>]}
    ELSE {[open |-> "NotFound", read |-> "none", contents |-> <<>>],
          [open |-> "Other", read |-> "none", contents |-> <<>>]}

SeekErr == [kind |-> "Err", cursor |-> <<>>]

\* An initial_cursor that falls back to the journal tail on every error.
initial_cursor_lenient(r) ==
    IF r.open = "Ok" /\ r.read = "Ok" THEN SeekCursor(Trim(r.contents))
    ELSE SeekTail

\* initial_cursor: the match on read_result
initial_cursor(r) ==
    IF r.open = "Ok" /\ r.read = "Ok" THEN SeekCursor(Trim(r.contents))
    ELSE IF r.open = "NotFound" THEN SeekTail
    ELSE SeekErr

\* let seek_position = initial_cursor().expect(..)
InitialCursor ==
    /\ pc = "initial_cursor"
    /\ \E r \in ReadResults(file) :
          /\ read_result' = r
          /\ IF initial_cursor(r) = SeekErr
             THEN /\ Exit(ExitPanic)
                  /\ UNCHANGED seek_position
             ELSE /\ seek_position' = initial_cursor(r)
                  /\ pc' = "seek"
                  /\ UNCHANGED exit_code
    /\ UNCHANGED <<runs, env, pos, loopv, flushv, ghost>>

\* Where a seek to the cursor of record p may leave the read pointer: on
\* record p, or before it so that record p is the next one read.
SeekCursorPositions(p) == {p - 1, p}

\* A main whose Err arm logs the error and returns.
SeekFailureReturns ==
    /\ pc = "seek"
    /\ \E a \in Arrivals :
          /\ avail' = a
          /\ \/ /\ seek_position.kind = "Tail"
                /\ pos' = a
                /\ pc' = "get_token"
                /\ UNCHANGED exit_code
             \/ /\ seek_position.kind = "Cursor"
                /\ seek_position.cursor \in ValidCursors
                /\ CursorPos(seek_position.cursor) <= a
                /\ pos' \in SeekCursorPositions(CursorPos(seek_position.cursor))
                /\ pc' = "get_token"
                /\ UNCHANGED exit_code
             \/ /\ Exit(ExitReturned)
                /\ UNCHANGED pos
    /\ UNCHANGED <<runs, file, clock, credentials, issued, mainv, loopv,
                   flushv, ghost>>

\* match journal.seek(seek_position) { Ok => .., Err => process::exit(1) }
Seek ==
    /\ pc = "seek"
    /\ \E a \in Arrivals :
          /\ avail' = a
          /\ \/ /\ seek_position.kind = "Tail"
                /\ pos' = a
                /\ pc' = "get_token"
                /\ UNCHANGED exit_code
             \/ /\ seek_position.kind = "Cursor"
                /\ seek_position.cursor \in ValidCursors
                /\ CursorPos(seek_position.cursor) <= a
                /\ pos' \in SeekCursorPositions(CursorPos(seek_position.cursor))
                /\ pc' = "get_token"
                /\ UNCHANGED exit_code
             \/ /\ Exit(ExitSeekFailed)
                /\ UNCHANGED pos
    /\ UNCHANGED <<runs, file, clock, credentials, issued, mainv, loopv,
                   flushv, ghost>>

\* get_token: the tokens a successful call at clock value t may return
get_token(t) ==
    IF credentials
    THEN {ServiceAccountToken(issued + 1, t)}
    ELSE {MetadataToken(issued + 1, t, e) : e \in ExpiresIn}

\* receiver_loop: let mut token = get_token()?;  (main: .expect(..))
GetTokenInitial ==
    /\ pc = "get_token"
    /\ \/ /\ \E tok \in get_token(clock) : token' = tok
          /\ issued' = issued + 1
          /\ pc' = "outer"
          /\ UNCHANGED exit_code
       \/ /\ Exit(ExitPanic)
          /\ UNCHANGED <<token, issued>>
    /\ UNCHANGED <<runs, file, avail, clock, credentials, mainv, pos, now,
                   buf, flushv, ghost>>

\* ---------------------------------------------------------- receiver_loop

\* The timeout receiver_loop passes to receive_next_record.
timeout == iteration

\* loop { let now = Instant::now(); ..
OuterBegin ==
    /\ pc = "outer"
    /\ now' = clock
    /\ pc' = "inner"
    /\ UNCHANGED <<exit_code, runs, env, mainv, pos, token, buf, flushv, ghost>>

\* if now.elapsed() > iteration { break; }
InnerBreak ==
    /\ pc = "inner"
    /\ clock - now > iteration
    /\ pc' = "window_end"
    /\ last_read' = "none"
    /\ inner_log' = NoLog
    /\ UNCHANGED <<exit_code, runs, env, mainv, pos, loopv, flushv, passed,
                   attempted, written, persisted, received, uploaded, convv>>

\* A read that puts the record at the front of the buffer.
ReadSomePrepends ==
    /\ pos' = pos + 1
    /\ passed' = passed \cup {pos + 1}
    /\ buf' = <<pos + 1>> \o buf
    /\ received' = Append(received, pos + 1)
    /\ last_read' = "Some"
    /\ inner_log' = "Received a new entry"

\* A loop that reads with journal.previous_record(): the journal yields the
\* record under the read pointer and the pointer moves back.
ReadSomeBackward ==
    /\ pos > 1
    /\ pos' = pos - 1
    /\ passed' = passed \cup {pos}
    /\ buf' = Append(buf, pos)
    /\ received' = Append(received, pos)
    /\ last_read' = "Some"
    /\ inner_log' = "Received a new entry"

\* if let Ok(Some(entry)) = .. { buf.push(entry.into()); }
\* The journal yields record pos + 1.
ReadSome ==
    /\ pos' = pos + 1
    /\ passed' = passed \cup {pos + 1}
    /\ buf' = Append(buf, pos + 1)
    /\ received' = Append(received, pos + 1)
    /\ last_read' = "Some"
    /\ inner_log' = "Received a new entry"

\* The read fails after the read pointer moved to record pos + 1
\* (sd_journal_next succeeded, reading the record's fields failed).
ReadErrAdvanced ==
    /\ pos' = pos + 1
    /\ passed' = passed \cup {pos + 1}
    /\ last_read' = "Err"
    /\ inner_log' = NoLog
    /\ UNCHANGED <<buf, received>>

\* The read fails and the read pointer stays.
ReadErr ==
    /\ last_read' = "Err"
    /\ inner_log' = NoLog
    /\ UNCHANGED <<pos, passed, buf, received>>

\* A receive_next_record that goes on to the blocking read whatever the
\* non-blocking read found.
RecvNextAlwaysBlocks ==
    /\ pc = "inner"
    /\ ~(clock - now > iteration)
    /\ \E a \in Arrivals :
          /\ avail' = a
          /\ last_read' = "none"
          /\ inner_log' = NoLog
          /\ UNCHANGED <<pos, passed, buf, received>>
          /\ pc' = "await"
    /\ UNCHANGED <<exit_code, runs, file, clock, credentials, issued, mainv,
                   token, now, flushv, attempted, written, persisted,
                   uploaded, convv>>

\* receive_next_record: journal.next_record()?, the non-blocking read
RecvNext ==
    /\ pc = "inner"
    /\ ~(clock - now > iteration)
    /\ \E a \in Arrivals :
          /\ avail' = a
          /\ \/ /\ pos < a
                /\ ReadSome
                /\ pc' = "inner"
             \/ /\ pos < a
                /\ ReadErrAdvanced
                /\ pc' = "inner"
             \/ /\ ReadErr
                /\ pc' = "inner"
             \/ /\ pos = a
                /\ last_read' = "none"
                /\ inner_log' = NoLog
                /\ UNCHANGED <<pos, passed, buf, received>>
                /\ pc' = "await"
    /\ UNCHANGED <<exit_code, runs, file, clock, credentials, issued, mainv,
                   token, now, flushv, attempted, written, persisted,
                   uploaded, convv>>

\* receive_next_record: journal.await_next_record(Some(timeout)), the
\* blocking read; it returns after d ms, d one of the durations D.
AwaitNextRecord(D) ==
    /\ pc = "await"
    /\ \E a \in Arrivals, d \in D :
          /\ d <= timeout
          /\ clock + d <= MaxClock
          /\ clock' = clock + d
          /\ avail' = a
          /\ \/ /\ pos < a
                /\ ReadSome
             \/ /\ pos < a
                /\ ReadErrAdvanced
             \/ ReadErr
             \/ /\ pos = a
                /\ last_read' = "None"
                /\ inner_log' = NoLog
                /\ UNCHANGED <<pos, passed, buf, received>>
    /\ pc' = "inner"
    /\ UNCHANGED <<exit_code, runs, file, credentials, issued, mainv, token,
                   now, flushv, attempted, written, persisted, uploaded,
                   convv>>

RecvAwait == AwaitNextRecord(Delays)

\* A receiver_loop that logs the Err and goes on with the next window.
LoopGoesOn ==
    /\ pc' = "outer"
    /\ UNCHANGED exit_code

\* What receiver_loop and main do with an Err of flush or journal.cursor():
\* the ? returns it from receiver_loop and main's expect panics.
LoopFailed == Exit(ExitPanic)

\* A receiver_loop that calls flush at the end of every window, with an empty
\* batch too.
WindowEndAlwaysFlushes ==
    /\ pc = "window_end"
    /\ buf' = <<>>
    /\ to_flush' = buf
    /\ UNCHANGED <<chunk_ix, flush_start>>
    /\ \/ /\ cursor' = CursorOf(pos)
          /\ flush_ret' = "running"
          /\ posts' = <<>>
          /\ pc' = "flush"
          /\ UNCHANGED exit_code
       \/ /\ LoopFailed
          /\ UNCHANGED <<cursor, flush_ret, posts>>
    /\ UNCHANGED <<runs, env, mainv, pos, token, now, ghost>>

\* A receiver_loop that hands flush a copy of the buffer (buf.clone()) and
\* does not empty it.
WindowEndKeepsBuffer ==
    /\ pc = "window_end"
    /\ IF buf = <<>>
       THEN /\ pc' = "outer"
            /\ UNCHANGED <<exit_code, buf, flushv>>
       ELSE /\ buf' = buf
            /\ to_flush' = buf
            /\ UNCHANGED <<chunk_ix, flush_start>>
            /\ \/ /\ cursor' = CursorOf(pos)
                  /\ flush_ret' = "running"
                  /\ posts' = <<>>
                  /\ pc' = "flush"
                  /\ UNCHANGED exit_code
               \/ /\ LoopFailed
                  /\ UNCHANGED <<cursor, flush_ret, posts>>
    /\ UNCHANGED <<runs, env, mainv, pos, token, now, ghost>>

\* if !buf.is_empty() { let to_flush = mem::replace(&mut buf, Vec::new());
\*                      flush(&client, &mut token, to_flush, journal.cursor()?)?; }
WindowEnd ==
    /\ pc = "window_end"
    /\ IF buf = <<>>
       THEN /\ pc' = "outer"
            /\ UNCHANGED <<exit_code, buf, flushv>>
       ELSE /\ buf' = <<>>
            /\ to_flush' = buf
            /\ UNCHANGED <<chunk_ix, flush_start>>
            /\ \/ /\ cursor' = CursorOf(pos)
                  /\ flush_ret' = "running"
                  /\ posts' = <<>>
                  /\ pc' = "flush"
                  /\ UNCHANGED exit_code
               \/ /\ LoopFailed
                  /\ UNCHANGED <<cursor, flush_ret, posts>>
    /\ UNCHANGED <<runs, env, mainv, pos, token, now, ghost>>

\* ------------------------------------------------------------------ flush

\* A flush that calls persist_cursor before the chunk loop.
ChunkLoopPersistsFirst == "persist_create"

\* The pc after the token check: the chunk loop, or persist_cursor when
\* there is no chunk.
ChunkLoop ==
    IF Chunks(to_flush, ChunkSize) = <<>> THEN "persist_create" ELSE "chunks"

\* flush: if token.is_expired() { .. }
FlushCheckToken ==
    /\ pc = "flush"
    /\ flush_start' = clock
    /\ chunk_ix' = 1
    /\ pc' = IF is_expired(token, clock) THEN "refresh" ELSE ChunkLoop
    /\ UNCHANGED <<exit_code, runs, env, mainv, pos, loopv, to_flush, cursor,
                   flush_ret, posts, ghost>>

\* A flush that gives up the token it holds before it asks for a new one.
FlushRefreshDropsToken ==
    /\ pc = "refresh"
    /\ \/ /\ \E tok \in get_token(clock) : token' = tok
          /\ issued' = issued + 1
          /\ pc' = ChunkLoop
          /\ UNCHANGED <<exit_code, flush_ret>>
       \/ /\ flush_ret' = "token_err"
          /\ LoopFailed
          /\ token' = NoToken
          /\ UNCHANGED issued
    /\ UNCHANGED <<runs, file, avail, clock, credentials, mainv, pos, now, buf,
                   to_flush, cursor, chunk_ix, flush_start, posts, ghost>>

\* flush: let new_token = get_token()?; mem::replace(token, new_token);
FlushRefresh ==
    /\ pc = "refresh"
    /\ \/ /\ \E tok \in get_token(clock) : token' = tok
          /\ issued' = issued + 1
          /\ pc' = ChunkLoop
          /\ UNCHANGED <<exit_code, flush_ret>>
       \/ /\ flush_ret' = "token_err"
          /\ LoopFailed
          /\ UNCHANGED <<token, issued>>
    /\ UNCHANGED <<runs, file, avail, clock, credentials, mainv, pos, now, buf,
                   to_flush, cursor, chunk_ix, flush_start, posts, ghost>>

\* A chunk loop that returns the error of a failed POST with ?.
ChunkDoneOrAbort(ok) ==
    IF ok
    THEN /\ chunk_ix' = chunk_ix + 1
         /\ pc' = IF chunk_ix = Len(Chunks(to_flush, ChunkSize))
                  THEN "persist_create" ELSE "chunks"
         /\ UNCHANGED <<exit_code, flush_ret>>
    ELSE /\ flush_ret' = "post_err"
         /\ Exit(ExitPanic)
         /\ UNCHANGED chunk_ix

\* flush: what follows the POST of chunk chunk_ix, whose outcome is ok: the
\* error is logged and the loop goes on to the next chunk.
ChunkDone(ok) ==
    /\ chunk_ix' = chunk_ix + 1
    /\ pc' = IF chunk_ix = Len(Chunks(to_flush, ChunkSize))
             THEN "persist_create" ELSE "chunks"
    /\ UNCHANGED <<exit_code, flush_ret>>

\* prepare_request: PROJECT_ID and MONITORED_RESOURCE are lazy statics, so
\* the first prepare_request of the process resolves them, and the expect
\* in get_project_id / determine_monitored_resource panics when that fails.
IdentityUnresolved ==
    /\ uploaded = <<>>
    /\ Exit(ExitPanic)
    /\ UNCHANGED <<clock, posts, attempted, uploaded, chunk_ix, flush_ret>>

\* flush: for chunk in entries.chunks(750) { write_entries(client, token,
\* prepare_request(chunk)) }; the POST takes d ms and is answered 2xx or not.
FlushChunk ==
    /\ pc = "chunks"
    /\ chunk_ix <= Len(Chunks(to_flush, ChunkSize))
    /\ \/ \E ok \in BOOLEAN, d \in Delays :
             /\ clock + d <= MaxClock
             /\ clock' = clock + d
             /\ posts' = Append(posts,
                    Post(Chunks(to_flush, ChunkSize)[chunk_ix], token, ok))
             /\ attempted' = attempted
                    \cup SeqToSet(Chunks(to_flush, ChunkSize)[chunk_ix])
             /\ uploaded' = uploaded \o Chunks(to_flush, ChunkSize)[chunk_ix]
             /\ ChunkDone(ok)
       \/ IdentityUnresolved
    /\ UNCHANGED <<runs, file, avail, credentials, issued, mainv, pos, loopv,
                   to_flush, cursor, flush_start, passed, written, persisted,
                   received, readv, convv>>

\* persist_cursor: let mut file = File::create(&*POSITION_FILE)?;
PersistCreate ==
    /\ pc = "persist_create"
    /\ \/ /\ file' = FileWith(<<>>)
          /\ pc' = "persist_write"
          /\ UNCHANGED <<exit_code, flush_ret>>
       \/ /\ flush_ret' = "write_err"
          /\ LoopFailed
          /\ UNCHANGED file
    /\ UNCHANGED <<runs, avail, clock, credentials, issued, mainv, pos, loopv,
                   to_flush, cursor, chunk_ix, flush_start, posts, ghost>>

\* persist_cursor: write!(file, "{}", cursor); a failed write leaves the
\* first k characters in the file.
PersistWrite ==
    /\ pc = "persist_write"
    /\ \/ /\ file' = FileWith(cursor)
          /\ written' = written \cup {cursor}
          /\ persisted' = cursor
          /\ flush_ret' = "ok"
          /\ pc' = "outer"
          /\ UNCHANGED exit_code
       \/ /\ \E k \in 0..(Len(cursor) - 1) :
                file' = FileWith(SubSeq(cursor, 1, k))
          /\ flush_ret' = "write_err"
          /\ LoopFailed
          /\ UNCHANGED <<written, persisted>>
    /\ UNCHANGED <<runs, avail, clock, credentials, issued, mainv, pos, loopv,
                   to_flush, cursor, chunk_ix, flush_start, posts, passed,
                   attempted, received, uploaded, readv, convv>>

\* ------------------------------------------------------ crash and restart

\* The process is killed (power loss, SIGKILL) at any point.
Crash ==
    /\ pc # "exited"
    /\ Exit(ExitKilled)
    /\ UNCHANGED <<runs, env, mainv, pos, loopv, flushv, ghost>>

\* The supervisor starts the process again: the cursor file, the journal,
\* the clock and the backend keep their state, the process starts afresh.
Restart ==
    /\ pc = "exited"
    /\ runs < MaxRuns
    /\ runs' = runs + 1
    /\ pc' = "main"
    /\ exit_code' = Running
    /\ read_result' = NoRead
    /\ seek_position' = NoSeek
    /\ pos' = 0
    /\ token' = NoToken
    /\ now' = 0
    /\ buf' = <<>>
    /\ to_flush' = <<>>
    /\ cursor' = <<>>
    /\ chunk_ix' = 0
    /\ flush_start' = 0
    /\ flush_ret' = "none"
    /\ posts' = <<>>
    /\ passed' = {}
    /\ received' = <<>>
    /\ uploaded' = <<>>
    /\ last_read' = "none"
    /\ inner_log' = NoLog
    /\ UNCHANGED <<env, attempted, written, persisted, convv>>

Next ==
    \/ CreateDir
    \/ OpenJournal
    \/ InitialCursor
    \/ Seek
    \/ GetTokenInitial
    \/ OuterBegin
    \/ InnerBreak
    \/ RecvNext
    \/ RecvAwait
    \/ WindowEnd
    \/ FlushCheckToken
    \/ FlushRefresh
    \/ FlushChunk
    \/ PersistCreate
    \/ PersistWrite
    \/ Crash
    \/ Restart

Spec == Init /\ [][Next]_vars

\* ------------------------------------------------------------ flush alone

\* Batch lengths around the chunk size.
BatchLens ==
    {1, ChunkSize - 1, ChunkSize, ChunkSize + 1, 2 * ChunkSize, MaxBatch}

Batch(n) == [k \in 1..n |-> k]

\* receiver_loop calls flush with a batch of n records, some time after the
\* token was obtained.
InitFlush ==
    /\ pc = "flush"
    /\ exit_code = Running
    /\ runs = 1
    /\ file \in InitialFiles
    /\ \E n \in BatchLens :
          /\ avail = n
          /\ pos = n
          /\ to_flush = Batch(n)
          /\ cursor = CursorOf(n)
          /\ passed = 1..n
          /\ received = Batch(n)
    /\ clock \in {2 * iteration, 3 * iteration}
    /\ credentials \in BOOLEAN
    /\ issued = 1
    /\ read_result = IF file.exists
                     THEN [open |-> "Ok", read |-> "Ok", contents |-> file.contents]
                     ELSE [open |-> "NotFound", read |-> "none", contents |-> <<>>]
    /\ seek_position = initial_cursor(read_result)
    /\ token \in IF credentials
                 THEN {ServiceAccountToken(1, 0)}
                 ELSE {MetadataToken(1, 0, e) : e \in ExpiresIn}
    /\ now = clock - 2 * iteration
    /\ buf = <<>>
    /\ chunk_ix = 0
    /\ flush_start = 0
    /\ flush_ret = "running"
    /\ posts = <<>>
    /\ attempted = {}
    /\ written = {}
    /\ persisted = <<>>
    /\ uploaded = <<>>
    /\ last_read = "none"
    /\ inner_log = NoLog
    /\ record = NoRecord
    /\ entry = NoEntry

NextFlush ==
    \/ FlushCheckToken
    \/ FlushRefresh
    \/ FlushChunk
    \/ PersistCreate
    \/ PersistWrite

SpecFlush == InitFlush /\ [][NextFlush]_vars

\* ------------------------------------------------------ receiver_loop alone

\* Durations of a blocking read that also ends within a window.
PartDelays == Delays \cup {iteration \div 2}

RecvAwaitPart == AwaitNextRecord(PartDelays)

\* receiver_loop has obtained its token and is about to begin its first
\* outer iteration; the journal was sought to its tail.
InitWindow ==
    /\ pc = "outer"
    /\ exit_code = Running
    /\ runs = 1
    /\ file \in InitialFiles
    /\ avail \in 1..2
    /\ pos = avail
    /\ clock = 0
    /\ credentials \in BOOLEAN
    /\ issued = 1
    /\ read_result = [open |-> "NotFound", read |-> "none", contents |-> <<>>]
    /\ seek_position = SeekTail
    /\ token \in IF credentials
                 THEN {ServiceAccountToken(1, 0)}
                 ELSE {MetadataToken(1, 0, e) : e \in ExpiresIn}
    /\ now = 0
    /\ buf = <<>>
    /\ to_flush = <<>>
    /\ cursor = <<>>
    /\ chunk_ix = 0
    /\ flush_start = 0
    /\ flush_ret = "none"
    /\ posts = <<>>
    /\ passed = {}
    /\ attempted = {}
    /\ written = {}
    /\ persisted = <<>>
    /\ received = <<>>
    /\ uploaded = <<>>
    /\ last_read = "none"
    /\ inner_log = NoLog
    /\ record = NoRecord
    /\ entry = NoEntry

NextWindow ==
    \/ OuterBegin
    \/ InnerBreak
    \/ RecvNext
    \/ RecvAwaitPart
    \/ WindowEnd
    \/ FlushCheckToken
    \/ FlushRefresh
    \/ FlushChunk
    \/ PersistCreate
    \/ PersistWrite

SpecWindow == InitWindow /\ [][NextWindow]_vars

\* ------------------------------------------ From<JournalRecord> for LogEntry

None == [some |-> FALSE]
Some(x) == [some |-> TRUE, value |-> x]

\* Messages are sequences of JSON tokens: punctuation, the string literal
\* "k", the number 1, the literal null and a blank.
JsonTokens == {"{", "}", "[", "]", ":", ",", "\"k\"", "1", "null", " "}

JsonScalar(t) == [type |-> t]
JsonArray(items) == [type |-> "array", items |-> items]
JsonObject(members) == [type |-> "object", members |-> members]

\* serde_json's Map::insert: a later member replaces an equal key.
MapInsert(m, k, v) ==
    [x \in (DOMAIN m) \cup {k} |-> IF x = k THEN v ELSE m[x]]

EmptyMap == [x \in {} |-> x]

ParseErr == [ok |-> FALSE]
ParseOk(v, next) == [ok |-> TRUE, value |-> v, next |-> next]

RECURSIVE SkipWs(_, _)
\* The first index from i on that holds no blank.
SkipWs(s, i) ==
    IF i <= Len(s) /\ s[i] = " " THEN SkipWs(s, i + 1) ELSE i

RECURSIVE ParseValue(_, _), ParseElements(_, _, _), ParseMembers(_, _, _)

\* serde_json: one value that starts at or after index i.
ParseValue(s, i) ==
    LET j == SkipWs(s, i) IN
    IF j > Len(s) THEN ParseErr
    ELSE CASE s[j] = "1" -> ParseOk(JsonScalar("number"), j + 1)
           [] s[j] = "\"k\"" -> ParseOk(JsonScalar("string"), j + 1)
           [] s[j] = "null" -> ParseOk(JsonScalar("null"), j + 1)
           [] s[j] = "[" ->
                LET k == SkipWs(s, j + 1) IN
                IF k <= Len(s) /\ s[k] = "]"
                THEN ParseOk(JsonArray(<<>>), k + 1)
                ELSE ParseElements(s, k, <<>>)
           [] s[j] = "{" ->
                LET k == SkipWs(s, j + 1) IN
                IF k <= Len(s) /\ s[k] = "}"
                THEN ParseOk(JsonObject(EmptyMap), k + 1)
                ELSE ParseMembers(s, k, EmptyMap)
           [] OTHER -> ParseErr

\* The elements of an array after "[" or ",", up to the closing "]".
ParseElements(s, i, acc) ==
    LET v == ParseValue(s, i) IN
    IF ~v.ok THEN ParseErr
    ELSE LET k == SkipWs(s, v.next) IN
         IF k > Len(s) THEN ParseErr
         ELSE IF s[k] = "," THEN ParseElements(s, k + 1, Append(acc, v.value))
         ELSE IF s[k] = "]" THEN ParseOk(JsonArray(Append(acc, v.value)), k + 1)
         ELSE ParseErr

\* The members of an object after "{" or ",", up to the closing "}".
ParseMembers(s, i, acc) ==
    LET k == SkipWs(s, i) IN
    IF k > Len(s) \/ s[k] # "\"k\"" THEN ParseErr
    ELSE LET c == SkipWs(s, k + 1) IN
         IF c > Len(s) \/ s[c] # ":" THEN ParseErr
         ELSE LET v == ParseValue(s, c + 1) IN
              IF ~v.ok THEN ParseErr
              ELSE LET e == SkipWs(s, v.next) IN
                   IF e > Len(s) THEN ParseErr
                   ELSE IF s[e] = ","
                        THEN ParseMembers(s, e + 1, MapInsert(acc, s[k], v.value))
                   ELSE IF s[e] = "}"
                        THEN ParseOk(JsonObject(MapInsert(acc, s[k], v.value)), e + 1)
                   ELSE ParseErr

\* serde_json::from_str::<Value>: one value and nothing but blanks after it.
from_str(s) ==
    LET v == ParseValue(s, 1) IN
    IF v.ok /\ SkipWs(s, v.next) > Len(s) THEN [ok |-> TRUE, value |-> v.value]
    ELSE ParseErr

TextPayload(t) == [kind |-> "TextPayload", text_payload |-> t]
JsonPayload(j) == [kind |-> "JsonPayload", json_payload |-> j]

\* A message_to_payload that returns every JSON value as a JsonPayload.
message_to_payload_any_json(message) ==
    IF ~message.some THEN TextPayload(<<"empty log entry">>)
    ELSE IF from_str(message.value).ok
         THEN JsonPayload(from_str(message.value).value)
         ELSE TextPayload(message.value)

\* message_to_payload
message_to_payload(message) ==
    IF ~message.some THEN TextPayload(<<"empty log entry">>)
    ELSE IF from_str(message.value).ok
            /\ from_str(message.value).value.type = "object"
         THEN JsonPayload(from_str(message.value).value)
         ELSE TextPayload(message.value)

\* Strings other than messages are sequences of characters; the one
\* character outside ASCII takes two bytes in UTF-8.
TwoByteChar == "U+00E9"

Digits == <<"0", "1", "2", "3", "4", "5", "6", "7", "8", "9">>

IsDigit(c) == \E d \in 1..Len(Digits) : Digits[d] = c

DigitVal(c) == (CHOOSE d \in 1..Len(Digits) : Digits[d] = c) - 1

RECURSIVE ByteLen(_)
\* String::len, the length in bytes
ByteLen(s) ==
    IF s = <<>> THEN 0
    ELSE (IF s[1] = TwoByteChar THEN 2 ELSE 1) + ByteLen(Tail(s))

\* The number of characters of s that lie within its first n bytes.
CharsWithin(s, n) ==
    CHOOSE k \in 0..Len(s) :
        /\ ByteLen(SubSeq(s, 1, k)) <= n
        /\ k < Len(s) => ByteLen(SubSeq(s, 1, k + 1)) > n

\* str::is_char_boundary
IsCharBoundary(s, n) == ByteLen(SubSeq(s, 1, CharsWithin(s, n))) = n

RECURSIVE DecimalValue(_)
\* The number a sequence of digits denotes.
DecimalValue(s) ==
    IF s = <<>> THEN 0
    ELSE 10 * DecimalValue(SubSeq(s, 1, Len(s) - 1)) + DigitVal(s[Len(s)])

AllDigits(s) == \A k \in 1..Len(s) : IsDigit(s[k])

\* <i64 as FromStr>::from_str: an optional sign, then digits, at least one.
parse_i64(s) ==
    IF s = <<>> THEN None
    ELSE IF s[1] \in {"+", "-"}
         THEN IF Len(s) > 1 /\ AllDigits(Tail(s))
              THEN Some((IF s[1] = "-" THEN -1 ELSE 1) * DecimalValue(Tail(s)))
              ELSE None
         ELSE IF AllDigits(s) THEN Some(DecimalValue(s)) ELSE None

\* <u32 as FromStr>::from_str: an optional "+", then digits, at least one.
parse_u32(s) ==
    IF s = <<>> THEN None
    ELSE IF s[1] = "+"
         THEN IF Len(s) > 1 /\ AllDigits(Tail(s))
              THEN Some(DecimalValue(Tail(s)))
              ELSE None
         ELSE IF AllDigits(s) THEN Some(DecimalValue(s)) ELSE None

\* Utc.timestamp_opt(secs, nsecs): Single unless nsecs is out of range.
timestamp_opt(secs, nsecs) ==
    IF nsecs < 2 * 1000 * 1000 * 1000
    THEN Some([secs |-> secs, nsecs |-> nsecs])
    ELSE None

Panicked == [panic |-> TRUE]
Returned(x) == [panic |-> FALSE, value |-> x]

\* parse_microseconds: the slices &input[..10] and &input[10..] panic when
\* byte 10 is no character boundary.
parse_microseconds(input) ==
    IF ByteLen(input) # 16 THEN Returned(None)
    ELSE IF ~IsCharBoundary(input, 10) THEN Panicked
    ELSE LET n == CharsWithin(input, 10)
             seconds == parse_i64(SubSeq(input, 1, n))
             micros == parse_u32(SubSeq(input, n + 1, Len(input)))
         IN IF ~seconds.some \/ ~micros.some THEN Returned(None)
            ELSE Returned(timestamp_opt(seconds.value, micros.value * 1000))

\* A priority_to_severity that reads the priority as a number.
priority_to_severity_numeric(priority) ==
    IF parse_u32(priority).some /\ parse_u32(priority).value <= 7
    THEN Some(800 - 100 * parse_u32(priority).value)
    ELSE None

\* priority_to_severity
priority_to_severity(priority) ==
    CASE priority = <<"0">> -> Some(800)
      [] priority = <<"1">> -> Some(700)
      [] priority = <<"2">> -> Some(600)
      [] priority = <<"3">> -> Some(500)
      [] priority = <<"4">> -> Some(400)
      [] priority = <<"5">> -> Some(300)
      [] priority = <<"6">> -> Some(200)
      [] priority = <<"7">> -> Some(100)
      [] OTHER -> None

\* Option::and_then for a function that may panic
AndThenMayPanic(opt, r) == IF opt.some THEN r ELSE Returned(None)

\* json!({"host": hostname, "unit": unit.unwrap_or_else(|| "syslog".into())})
Labels(hostname, unit) ==
    [host |-> IF hostname.some THEN hostname.value ELSE "null",
     unit |-> IF unit.some THEN unit.value ELSE "syslog"]

\* LogEntry::from(record), when nothing panics
LogEntryFrom(r) ==
    [payload |-> message_to_payload(r.MESSAGE),
     timestamp |-> AndThenMayPanic(r.SOURCE_REALTIME_TIMESTAMP,
                       parse_microseconds(r.SOURCE_REALTIME_TIMESTAMP.value)).value,
     labels |-> Labels(r.HOSTNAME, r.SYSTEMD_UNIT),
     severity |-> IF r.PRIORITY.some
                  THEN priority_to_severity(r.PRIORITY.value) ELSE None]

RECURSIVE SeqsUpTo(_, _)
\* The sequences over S of length n at most.
SeqsUpTo(S, n) ==
    IF n = 0 THEN {<<>>}
    ELSE LET shorter == SeqsUpTo(S, n - 1)
         IN shorter \cup {Append(t, x) : t \in shorter, x \in S}

\* The messages of n tokens.
Messages(n) == [1..n -> JsonTokens]

\* The timestamp of the repository's test, as characters.
TestTimestamp ==
    <<"1", "5", "2", "9", "1", "7", "5", "1", "4", "9",
      "2", "9", "1", "1", "8", "7">>

Subst(s, i, c) == [s EXCEPT ![i] = c]

TimestampChars == {"0", "+", "-", "a", " ", TwoByteChar}

Front(s) == SubSeq(s, 1, Len(s) - 1)

\* The test's timestamp, with one character replaced, without its last
\* character and one replaced, one character more, and the empty string.
Timestamps ==
    {TestTimestamp, <<>>, Front(TestTimestamp), Append(TestTimestamp, "0")}
        \cup {Subst(TestTimestamp, i, c) :
                  i \in 1..Len(TestTimestamp), c \in TimestampChars}
        \cup {Subst(Front(TestTimestamp), i, c) :
                  i \in 1..(Len(TestTimestamp) - 1), c \in TimestampChars}

PriorityChars == {Digits[d] : d \in 1..Len(Digits)} \cup {" ", "+", "-"}

Priorities == SeqsUpTo(PriorityChars, MaxPriorityLen)

PlainRecord ==
    [MESSAGE |-> None, HOSTNAME |-> None, SYSTEMD_UNIT |-> None,
     SOURCE_REALTIME_TIMESTAMP |-> None, PRIORITY |-> None]

\* The record to convert varies in one field, or in the two fields of the
\* labels.
RecordToConvert(r) ==
    \/ \E n \in 0..MaxMsgLen : \E m \in Messages(n) :
          r = [PlainRecord EXCEPT !.MESSAGE = Some(m)]
    \/ \E t \in Timestamps :
          r = [PlainRecord EXCEPT !.SOURCE_REALTIME_TIMESTAMP = Some(t),
                                  !.MESSAGE = Some(<<"1">>)]
    \/ \E q \in Priorities : r = [PlainRecord EXCEPT !.PRIORITY = Some(q)]
    \/ \E h \in {None, Some("host")}, u \in {None, Some("unit")} :
          r = [PlainRecord EXCEPT !.HOSTNAME = h, !.SYSTEMD_UNIT = u]

\* The inner loop holds a record it has read and is about to convert it.
InitConvert ==
    /\ pc = "convert"
    /\ RecordToConvert(record)
    /\ entry = NoEntry
    /\ exit_code = Running
    /\ runs = 1
    /\ file = NoFile
    /\ avail = 1
    /\ clock = 0
    /\ credentials = FALSE
    /\ issued = 1
    /\ read_result = [open |-> "NotFound", read |-> "none", contents |-> <<>>]
    /\ seek_position = SeekTail
    /\ pos = 1
    /\ token = MetadataToken(1, 0, 1)
    /\ now = 0
    /\ buf = <<>>
    /\ to_flush = <<>>
    /\ cursor = <<>>
    /\ chunk_ix = 0
    /\ flush_start = 0
    /\ flush_ret = "none"
    /\ posts = <<>>
    /\ passed = {1}
    /\ attempted = {}
    /\ written = {}
    /\ persisted = <<>>
    /\ received = <<1>>
    /\ uploaded = <<>>
    /\ last_read = "Some"
    /\ inner_log = "Received a new entry"

\* buf.push(entry.into()): LogEntry::from(record); a panic in it ends the
\* process.
Convert ==
    /\ pc = "convert"
    /\ IF AndThenMayPanic(record.SOURCE_REALTIME_TIMESTAMP,
              parse_microseconds(record.SOURCE_REALTIME_TIMESTAMP.value)).panic
       THEN /\ Exit(ExitPanic)
            /\ UNCHANGED entry
       ELSE /\ entry' = LogEntryFrom(record)
            /\ pc' = "converted"
            /\ UNCHANGED exit_code
    /\ UNCHANGED <<runs, env, mainv, pos, loopv, flushv, passed, attempted,
                   written, persisted, received, uploaded, readv, record>>

NextConvert == Convert

SpecConvert == InitConvert /\ [][NextConvert]_vars

\* ----------------------------------------------------------------- claims

AllPostsOk == \A i \in 1..Len(posts) : posts[i].ok

AllPostsFailed == \A i \in 1..Len(posts) : ~posts[i].ok

NumChunks == Len(Chunks(to_flush, ChunkSize))

\* C1: a flush writes its cursor to the cursor file only if every chunk POST
\* of its batch was answered 2xx: whenever a flush has returned Ok (its cursor
\* is in the file), all POSTs of that flush succeeded.
C1_CursorWrittenOnlyAfterFullAck ==
    flush_ret = "ok" => AllPostsOk

\* C2: every record the read pointer passed in this run and that a written
\* cursor covers was an entry of some POST attempted before.
C2_PersistedThroughWasAttempted ==
    \A c \in written : \A r \in passed :
        r <= CursorPos(c) => r \in attempted

PostedEntries == Concat([i \in 1..Len(posts) |-> posts[i].entries])

ChunkLoopOver ==
    \/ pc \in {"persist_create", "persist_write"}
    \/ flush_ret \in {"ok", "write_err"}

\* C4: the chunk requests of one flush, concatenated in the order they are
\* POSTed, are a prefix of the batch while the chunk loop runs and the whole
\* batch once it is over, and no request carries more than 750 entries; the
\* empty batch gives no request.
C4_ChunksPartitionBatch ==
    /\ \A i \in 1..Len(posts) :
          /\ Len(posts[i].entries) <= ChunkSize
          /\ posts[i].entries # <<>>
    /\ Len(PostedEntries) <= Len(to_flush)
    /\ PostedEntries = SubSeq(to_flush, 1, Len(PostedEntries))
    /\ ChunkLoopOver => PostedEntries = to_flush
    /\ Chunks(<<>>, ChunkSize) = <<>>

\* C4 witness: a batch of more than two full chunks went out in three
\* requests, the last one shorter.
C4_Witness ==
    /\ pc = "persist_create"
    /\ Len(to_flush) > 2 * ChunkSize
    /\ Len(posts) = 3
    /\ Len(posts[3].entries) < ChunkSize

\* C5: a step that POSTs chunk i and gets a failure goes on to chunk i + 1,
\* or to persist_cursor after the last chunk; the process does not exit and
\* the flush does not return.
C5_FailedChunkDoesNotAbort ==
    [][(Len(posts') = Len(posts) + 1 /\ ~posts'[Len(posts')].ok) =>
          /\ pc' = IF Len(posts') < NumChunks THEN "chunks" ELSE "persist_create"
          /\ chunk_ix' = chunk_ix + 1
          /\ exit_code' = Running
          /\ flush_ret' = "running"]_vars

\* C5 witness: the first chunk of a flush failed and the later ones were
\* POSTed all the same.
C5_Witness ==
    /\ Len(posts) = 3
    /\ ~posts[1].ok
    /\ posts[3].ok
    /\ pc = "persist_create"

\* C6: no POST of a flush carries a token that was expired when the flush
\* started (clock - fetched_at > lifetime at flush_start).
C6_NoPostWithTokenExpiredAtFlushStart ==
    \A i \in 1..Len(posts) :
        flush_start - posts[i].token.fetched_at <= posts[i].token.expires

\* C6 witness: the token held at the start of the flush was expired and the
\* POST went out with the token obtained in that flush.
C6_Witness ==
    /\ posts # <<>>
    /\ posts[1].token.token = issued
    /\ posts[1].token.token > 1
    /\ posts[1].token.fetched_at = flush_start
    /\ flush_start > 0

\* C7 as stated: after a failed token refresh in a flush the receiver loop
\* keeps running.
C7_LoopSurvivesTokenFailure ==
    flush_ret = "token_err" => pc # "exited"

\* C7 amended: a failed token refresh in a flush ends the process with the
\* status of a panic; nothing of the batch was POSTed, the batch is no longer
\* in the buffer and the token held is the expired one.
C7_TokenFailureEndsProcess ==
    flush_ret = "token_err" =>
        /\ pc = "exited"
        /\ exit_code = ExitPanic
        /\ posts = <<>>
        /\ buf = <<>>
        /\ to_flush # <<>>
        /\ token.fetched_at + token.expires < flush_start

\* C7 witness: the refresh failed in a flush of a batch.
C7_Witness ==
    /\ flush_ret = "token_err"
    /\ exit_code = ExitPanic
    /\ to_flush # <<>>

\* The file holds a cursor the journal issued, surrounded by whitespace at
\* most.
FileHoldsCursor == file.exists /\ Trim(file.contents) \in ValidCursors

\* C8 as stated: after a failed write of the cursor file the loop is still
\* running and the records of the batch are in the buffer for the next cycle.
C8_WriteFailureRetriesBatch ==
    flush_ret = "write_err" =>
        /\ pc # "exited"
        /\ SeqToSet(to_flush) \subseteq SeqToSet(buf)

\* C8 amended: a failed write of the cursor file ends the process with the
\* status of a panic after every chunk was POSTed; the batch is no longer in
\* the buffer, and when the file still holds a cursor, no record of the batch
\* lies before it (a restart that seeks to it has the batch ahead).
C8_WriteFailureEndsProcess ==
    flush_ret = "write_err" =>
        /\ pc = "exited"
        /\ exit_code = ExitPanic
        /\ buf = <<>>
        /\ Len(posts) = NumChunks
        /\ FileHoldsCursor =>
              \A k \in 1..Len(to_flush) :
                  to_flush[k] >= CursorPos(Trim(file.contents))

\* C8 witness: File::create failed, the file still holds the cursor of the
\* start and the batch lies after it.
C8_Witness ==
    /\ flush_ret = "write_err"
    /\ FileHoldsCursor
    /\ to_flush # <<>>

\* C9: at every point the cursor file, when there is one, holds a complete
\* cursor.
C9_CursorFileAlwaysComplete ==
    file.exists => Trim(file.contents) \in ValidCursors

\* C10: initial_cursor has three outcomes.  A readable file gives
\* Cursor{trimmed contents}, a missing file gives Tail, and in both cases main
\* goes on to seek; every other outcome of open or read ends the process with
\* the status of a panic before the journal was sought, read or uploaded.
C10_InitialCursorOutcomes ==
    /\ pc = "seek" =>
          /\ file.exists =>
                /\ seek_position = SeekCursor(Trim(file.contents))
                /\ read_result.open = "Ok" /\ read_result.read = "Ok"
          /\ ~file.exists =>
                /\ seek_position = SeekTail
                /\ read_result.open = "NotFound"
    /\ (read_result.open = "Other" \/ read_result.read = "Err") =>
          /\ pc = "exited"
          /\ exit_code = ExitPanic
          /\ seek_position = NoSeek
          /\ pos = 0
          /\ passed = {}
          /\ posts = <<>>
    /\ (pc \notin {"main", "open_journal", "initial_cursor", "exited"}) =>
          \/ read_result.open = "Ok" /\ read_result.read = "Ok"
                /\ seek_position = SeekCursor(Trim(read_result.contents))
          \/ read_result.open = "NotFound" /\ seek_position = SeekTail

\* C10 witness: the file held a cursor with whitespace around it and the
\* journal is about to be sought to the trimmed cursor.
C10_Witness ==
    /\ pc = "seek"
    /\ file.contents # Trim(file.contents)
    /\ seek_position = SeekCursor(CursorOf(1))

\* The file holds exactly the cursor of the flush that last returned Ok.
FileIsFlushedCursor == flush_ret = "ok" => file = FileWith(cursor)

\* initial_cursor read back the contents of the file, trimmed.
ReadBackTrimmed ==
    (pc = "seek" /\ file.exists) =>
        seek_position = SeekCursor(Trim(file.contents))

\* C11: after a flush whose write succeeded the file holds exactly its
\* cursor, a start reads back the trimmed contents of the file, and a start
\* that follows any sequence of flushes seeks the journal to the cursor of the
\* last flush whose write succeeded.
C11_RestartSeeksLastPersisted ==
    /\ FileIsFlushedCursor
    /\ ReadBackTrimmed
    /\ (pc = "seek" /\ persisted # <<>>) =>
          seek_position = SeekCursor(persisted)

InFlush == pc \in {"flush", "refresh", "chunks", "persist_create", "persist_write"}

\* C12: flush runs with a batch that is not empty only, and the end of an
\* outer iteration whose buffer is empty goes back to a new window: no token
\* check, no token request, no POST and no write to the cursor file, with the
\* cursor file and the token unchanged.
C12_EmptyWindowDoesNotFlush ==
    /\ [](InFlush => to_flush # <<>>)
    /\ [][(pc = "window_end" /\ buf = <<>> /\ exit_code' # ExitKilled) =>
             /\ pc' = "outer"
             /\ exit_code' = Running
             /\ UNCHANGED <<file, token, issued, posts, flush_start, flush_ret,
                            to_flush, cursor, written, attempted, buf>>]_vars

\* C12 witness: the first window of a run is over, no flush has run in this
\* run and the loop is about to begin a new window.
C12_Witness ==
    /\ pc = "outer"
    /\ runs = 1
    /\ clock - now > iteration
    /\ flush_ret = "none"
    /\ buf = <<>>
    /\ posts = <<>>
    /\ token # NoToken

\* The entries of the running flush that no POST carried yet.
Pending ==
    IF InFlush
    THEN SubSeq(to_flush, Len(PostedEntries) + 1, Len(to_flush))
    ELSE <<>>

StrictlyIncreasing(s) == \A i \in 1..(Len(s) - 1) : s[i] < s[i + 1]

\* C13: the entries of all POSTs of a run, in the order the POSTs were sent,
\* are in strict journal order and are the records read successfully so far,
\* in the order the journal yielded them, up to the ones still waiting: while
\* the process lives, the records read are the entries POSTed, then the rest
\* of the running flush's batch, then the buffer.
C13_PostsFollowJournalOrder ==
    /\ StrictlyIncreasing(received)
    /\ Len(uploaded) <= Len(received)
    /\ uploaded = SubSeq(received, 1, Len(uploaded))
    /\ pc # "exited" => received = uploaded \o Pending \o buf
    /\ (pc = "outer" /\ buf = <<>>) => uploaded = received

\* C13 witness: two flushes of this run POSTed the first and the third record
\* of the journal; the read of the second one failed.
C13_Witness ==
    /\ pc = "persist_create"
    /\ Len(to_flush) = 1
    /\ uploaded = <<1, 3>>
    /\ uploaded = received
    /\ passed = {1, 2, 3}

\* A step in which receive_next_record returns.
ReadReturns == pc \in {"inner", "await"} /\ pc' = "inner"

\* The step of the inner loop in which receive_next_record returns an error
\* leaves the buffer as it was and goes back to the head of the inner loop.
ReadErrorSkipped ==
    [][(ReadReturns /\ last_read' = "Err") =>
          /\ buf' = buf
          /\ exit_code' = Running
          /\ UNCHANGED <<now, token, file, flushv>>]_vars

\* C14: after receive_next_record returned an error the inner loop has logged
\* it, and the process is at the head of the inner loop, alive.
C14_ReadErrorLoggedAndSkipped ==
    (last_read = "Err" /\ exit_code # ExitKilled) =>
        /\ inner_log # NoLog
        /\ pc = "inner"
        /\ exit_code = Running

\* The tokens of s that are no blanks.
NonBlank(s) == SelectSeq(s, LAMBDA t : t # " ")

\* C15: message_to_payload gives exactly one variant.  Without MESSAGE it is
\* TextPayload{"empty log entry"}; a MESSAGE S gives JsonPayload{parse(S)}
\* when and only when S parses as JSON and the value is an object, and
\* TextPayload{S} with S unchanged in every other case; a JsonPayload carries
\* an object, written between braces, never a scalar or an array.
C15_PayloadClassification ==
    pc = "converted" =>
        LET m == record.MESSAGE
            p == entry.payload
            j == from_str(m.value)
        IN /\ p.kind \in {"TextPayload", "JsonPayload"}
           /\ ~m.some => p = TextPayload(<<"empty log entry">>)
           /\ m.some =>
                 IF j.ok /\ j.value.type = "object"
                 THEN /\ p = JsonPayload(j.value)
                      /\ NonBlank(m.value)[1] = "{"
                      /\ NonBlank(m.value)[Len(NonBlank(m.value))] = "}"
                 ELSE p = TextPayload(m.value)
           /\ p.kind = "JsonPayload" =>
                 /\ m.some
                 /\ p.json_payload.type = "object"

\* C15 witness: a message that is a JSON array came out as the same text.
C15_Witness ==
    /\ pc = "converted"
    /\ record.MESSAGE = Some(<<"[", "1", "]">>)
    /\ from_str(record.MESSAGE.value).ok
    /\ entry.payload = TextPayload(<<"[", "1", "]">>)

\* C16: parse_microseconds(s) never fails; it returns a timestamp when and
\* only when s is 16 characters long and all of them are ASCII digits, and the
\* timestamp has the seconds of s[0:10] and the microseconds of s[10:16].
C16_TimestampIffSixteenDigits ==
    (pc # "convert" /\ record.SOURCE_REALTIME_TIMESTAMP.some) =>
        LET s == record.SOURCE_REALTIME_TIMESTAMP.value
        IN /\ pc = "converted"
           /\ entry.timestamp.some <=> (Len(s) = 16 /\ AllDigits(s))
           /\ entry.timestamp.some =>
                 entry.timestamp.value =
                     [secs |-> DecimalValue(SubSeq(s, 1, 10)),
                      nsecs |-> 1000 * DecimalValue(SubSeq(s, 11, 16))]

\* The value of a priority that is one of the digits 0 to 7.
IsLevel(q) == Len(q) = 1 /\ IsDigit(q[1]) /\ DigitVal(q[1]) <= 7

\* C17: priority_to_severity(p) is 800 - 100 * p for the one-digit strings
\* "0" to "7" and undefined for every other string; a record without
\* PRIORITY has no severity.
C17_SeverityTable ==
    pc = "converted" =>
        IF record.PRIORITY.some /\ IsLevel(record.PRIORITY.value)
        THEN entry.severity = Some(800 - 100 * DigitVal(record.PRIORITY.value[1]))
        ELSE entry.severity = None

\* C17 witness: the padded priority 07 gave no severity.
C17_Witness ==
    /\ pc = "converted"
    /\ record.PRIORITY = Some(<<"0", "7">>)
    /\ entry.severity = None

\* C18: at every call of flush the cursor passed is the journal position of
\* the last record of the batch passed with it, and every record the read
\* pointer passed in this run up to the cursor is in this batch or was
\* received before.
C18_CursorIsLastRecordOfBatch ==
    (InFlush /\ to_flush # <<>>) =>
        /\ cursor = CursorOf(to_flush[Len(to_flush)])
        /\ \A r \in passed : r <= CursorPos(cursor) => r \in SeqToSet(received)

\* The cursor file as it was when the process read it at its start.
FileAtStart ==
    IF read_result.open = "Ok" THEN FileWith(read_result.contents) ELSE NoFile

\* C19: within one flush the cursor file changes in persist_cursor only,
\* which runs once, after every chunk of the batch was POSTed: the file is as
\* it was until the chunk loop is over, a step that changes it is File::create
\* followed by the one write, the write ends the flush, and a flush that ended
\* with a failed token refresh left the file as it was.
C19_FileWrittenOnceAfterAllChunks ==
    /\ [](pc \in {"flush", "refresh", "chunks"} => file = FileAtStart)
    /\ [](flush_ret = "token_err" => file = FileAtStart /\ posts = <<>>)
    /\ [][file' # file =>
             /\ pc \in {"persist_create", "persist_write"}
             /\ Len(posts) = NumChunks
             /\ posts' = posts
             /\ pc = "persist_create" =>
                   pc' = "persist_write" /\ file' = FileWith(<<>>)
             /\ pc = "persist_write" => pc' \in {"outer", "exited"}]_vars

\* C19 witness: a flush of two chunks wrote its cursor over an older one
\* after the second POST.
C19_Witness ==
    /\ flush_ret = "ok"
    /\ Len(posts) = 2
    /\ file = FileWith(cursor)
    /\ FileAtStart # NoFile
    /\ file # FileAtStart

\* The time of the running outer iteration that has passed.
elapsed == clock - now

\* C20: a blocking read that starts before the window is over is given the
\* rest of the window as its timeout, and the inner loop is never at work
\* later than one window after the start of the outer iteration.
C20_InnerLoopWithinWindow ==
    /\ (pc = "await" /\ elapsed < iteration) => timeout = iteration - elapsed
    /\ pc \in {"inner", "await", "window_end"} => elapsed <= iteration

\* C21: receive_next_record reads without blocking first.  The blocking read
\* is entered from the non-blocking one only, when that reported no record
\* (the journal holds none beyond the read pointer) and with nothing read;
\* a record or an error of the non-blocking read is returned at once, with no
\* time spent.
C21_DrainBeforeBlock ==
    [][/\ pc' = "await" =>
             /\ pc = "inner"
             /\ pos = avail'
             /\ UNCHANGED <<pos, buf, clock>>
       /\ (pc = "inner" /\ last_read' \in {"Some", "Err"}
                /\ exit_code' # ExitKilled) =>
             /\ pc' = "inner"
             /\ clock' = clock
       /\ (pc = "inner" /\ pos < avail') => pc' # "await"
       /\ (pc \in {"inner", "await"} /\ clock' # clock) => pc = "await"]_vars

\* C21 witness: two records are in the buffer half a window after its
\* start; the last read returned a record.
C21_Witness ==
    /\ pc = "inner"
    /\ last_read = "Some"
    /\ Len(buf) = 2
    /\ elapsed = iteration \div 2

\* C22: no failure ends the process with status 0.  Whenever the process has
\* ended by itself (a failed create_dir_all, journal open, cursor read, seek,
\* first token, identity resolution, or a failure of the loop) its exit
\* status is not 0; the process does not get past initial_cursor without a
\* seek position; and a process that ended on a failed seek has read no
\* record, holds no token and has made no POST.
C22_FailureExitsNonZero ==
    /\ (pc = "exited" /\ exit_code # ExitKilled) => ExitStatus(exit_code) # 0
    /\ pc \in {"seek", "get_token", "outer", "inner", "await"} =>
           seek_position.kind \in {"Tail", "Cursor"}
    /\ exit_code = ExitSeekFailed =>
           /\ passed = {}
           /\ received = <<>>
           /\ buf = <<>>
           /\ token = NoToken
           /\ posts = <<>>
           /\ uploaded = <<>>

\* C22 witness: the second run of the process ends on a failed seek to the
\* cursor the first run persisted.
C22_Witness ==
    /\ pc = "exited"
    /\ exit_code = ExitSeekFailed
    /\ runs = 2
    /\ seek_position.kind = "Cursor"
    /\ persisted # <<>>

\* The step in which receiver_loop calls flush.
FlushCalled == pc = "window_end" /\ pc' = "flush"

\* C23: within a run every record read successfully goes into the batch of
\* exactly one flush.  When flush is called its batch is the whole buffer,
\* which is left empty; none of its entries was in a POST of an earlier
\* flush of the run, and the records read so far are the entries of the
\* earlier flushes followed by this batch.  The batch does not change while
\* the flush runs, the buffer stays empty during the flush, and it is empty
\* when the next window starts.
C23_EachRecordInOneFlush ==
    /\ [](InFlush \/ pc = "outer" => buf = <<>>)
    /\ [][/\ FlushCalled =>
                /\ buf # <<>>
                /\ to_flush' = buf
                /\ buf' = <<>>
                /\ SeqToSet(buf) \cap SeqToSet(uploaded) = {}
                /\ received = uploaded \o buf
                /\ received' = received
          /\ to_flush' # to_flush => pc = "window_end" \/ pc' = "main"
          /\ (InFlush /\ pc' = "outer") => uploaded' = received']_vars

\* C23 witness: the second flush of a run has been called with the record
\* read in its window; the first flush POSTed the record read before.
C23_Witness ==
    /\ pc = "flush"
    /\ uploaded = <<2>>
    /\ to_flush = <<3>>
    /\ received = <<2, 3>>
    /\ buf = <<>>

\* The step in which persist_cursor has written the whole cursor.
CursorWritten == pc = "persist_write" /\ pc' = "outer"

\* A flush of this run returned before the running one was called: the POSTs
\* of the run carried more than the running flush's batch.
WroteBeforeInRun == Len(uploaded) > Len(to_flush)

\* C24: within a run the persisted cursor only moves forward.  The read
\* pointer never moves back after the initial seek; a successful write stores
\* the cursor of the position the read pointer had when the flush was called;
\* and when an earlier write of the same run succeeded, the position it
\* stored is at or before the one the later write stores.
C24_PersistedCursorMovesForward ==
    [][/\ pc' # "main" => pos' >= pos
       /\ CursorWritten =>
             /\ cursor = CursorOf(pos)
             /\ file' = FileWith(cursor)
             /\ persisted' = cursor
             /\ WroteBeforeInRun =>
                   /\ persisted \in ValidCursors
                   /\ file = FileWith(<<>>)
                   /\ CursorPos(persisted) <= CursorPos(cursor)]_vars

\* C24 witness: two flushes of a run have written their cursors, the second
\* one the cursor of a later record than the first.
C24_Witness ==
    /\ pc = "outer"
    /\ flush_ret = "ok"
    /\ uploaded = <<2, 3>>
    /\ {CursorOf(2), CursorOf(3)} \subseteq written
    /\ persisted = CursorOf(3)
    /\ file = FileWith(CursorOf(3))

\* The step in which get_token fails in flush.
RefreshFails == pc = "refresh" /\ flush_ret' = "token_err"

\* C25: a flush whose token refresh fails has no outward effect.  Neither the
\* token check that finds the token expired nor the failing get_token changes
\* the cursor file, the token held or the count of tokens issued; the refresh
\* is tried for an expired token only and before any POST, and the failing
\* step makes no POST and records no cursor as written.
C25_FailedRefreshHasNoEffect ==
    [][/\ (pc = "flush" /\ pc' = "refresh") =>
             /\ is_expired(token, clock)
             /\ posts = <<>>
             /\ UNCHANGED <<file, token, issued, posts, attempted, uploaded,
                            written, persisted>>
       /\ RefreshFails =>
             /\ is_expired(token, flush_start)
             /\ posts = <<>>
             /\ to_flush # <<>>
             /\ UNCHANGED <<file, token, issued, posts, attempted, uploaded,
                            written, persisted, to_flush, cursor>>]_vars

\* C25 witness: the refresh failed in a flush of more than one chunk; the
\* cursor file holds the cursor it held when the process started and the
\* token is the one obtained before the flush.
C25_Witness ==
    /\ flush_ret = "token_err"
    /\ Len(to_flush) > ChunkSize
    /\ posts = <<>>
    /\ file.exists
    /\ file = FileAtStart
    /\ file.contents # cursor
    /\ token.token = 1
    /\ issued = 1

====
